---- MODULE Spec2Model ----
(***************************************************************************)
(* Training orchestration and checkpoint persistence of CaptchaRecognizer. *)
(*                                                                         *)
(* Modelled code:                                                          *)
(*   src/model/char/define/resnet.py    ResNetMultiHead.start and helpers  *)
(*   src/model/char/utils/file_util.py  SaveManager, save_checkpoint,      *)
(*                                      _save_checkpoint, _do_final_save   *)
(*                                                                         *)
(* Two threads: the orchestrator (the thread that calls start()) and the   *)
(* SaveManager worker (_process_queue).  Losses are integers in units of   *)
(* 0.01, accuracies are integers in units of one accuracy step.            *)
(***************************************************************************)
EXTENDS Integers, Sequences, FiniteSets, TLC

\* ---------------------------------------------------------------- bounds
MaxRuns == 2        \* start() calls in one process
MaxEpochs == 3      \* ResNetMultiHead.epochs
MaxPatience == 1    \* early_stop_patience is 1..MaxPatience

\* the validation results of an epoch: two accuracy levels, two loss levels
AccVals == {0, 1}
LossVals == {1, 2}

\* the results of an epoch's training pass, and the optimizer's learning rate
\* after the scheduler's step
TrainLossVals == {2}
TrainAccVals == {0}
LrVals == {10}

\* float('inf'), kept apart from the finite losses (which are >= 1)
INF == 0 - 1
\* float('nan')
NAN == 0 - 2
\* the losses that are not finite numbers
NonFinite == {INF, NAN}

VARIABLES
    \* ---- orchestrator (ResNetMultiHead instance and start()'s frame)
    pc,                  \* position of the thread running start()
    run,                 \* number of start() calls begun in this process
    epoch,               \* loop variable of start()
    early_stop_patience, \* class attribute
    early_stop_delta,    \* class attribute
    best_val_loss,
    best_val_acc,
    val_losses,
    val_accs,
    train_losses,
    train_accs,
    learning_rates,
    no_improve_counter,
    is_early_stop,
    params,              \* version of model.state_dict(): <<run, train passes>>
    arg,                 \* the task handed to add_task
    \* ---- SaveManager
    save_queue,
    running,
    wpc,                 \* save_thread: "none", or position in _process_queue
    task,                \* the task the worker took from the queue
    \* ---- file system
    files,               \* the .pth files of model.experiment_dir
    cfg,                 \* its training_config.json: <<>> or <<best_val_acc>>
    export,              \* CheckpointConfig.FINAL_DIR/<name>.pth, <<>> or <<state>>
    \* ---- history
    added,               \* ids of the tasks put on the queue in this run
    executed,            \* ids of the tasks whose call has finished, in order
    failed,              \* ids of the tasks that raised
    \* ---- experiment directories (create_experiment_dir, Trainer.__init__)
    now,                 \* datetime.now(), in seconds
    experiment_dirs,     \* the experiment_dir of every run, in allocation order
    \* ---- _calculate_accuracy(outputs, labels)
    outputs,             \* outputs[i][b]: the logits of head i for sample b
    labels,              \* labels[b][i]: the class of sample b at position i
    acc_out,             \* <<>>, or <<the value returned>>
    \* ---- scripts/train.py and the module global `config`
    config,              \* the options of the Config instance
    calls,               \* the arguments of the train_model calls so far
    \* ---- model_util.save_final_model(model)
    model_state,         \* <<>>, or <<early_stop, best_val_acc and the
                         \*   accuracies in the names of the .pth files of
                         \*   model.experiment_dir>>
    export_root,         \* <<>>, or <<what the call wrote under EXPORT_ROOT>>
    \* ---- the threads SaveManager.add_task has started
    threads,             \* every Thread object made so far, in order; the
                         \*   last one is self.save_thread
    \* ---- executors/trainer.py
    trainer_lists,       \* the list objects bound in the body of class Trainer
    trainers,            \* the Trainer instances made so far, in order
    \* ---- one pass of ResNetMultiHead._train / _eval over a loader
    dataset,             \* the samples in loader order: prediction and label
    loader,              \* [kind, batch_size, captcha_length] of the pass
    pass_state,          \* the locals of the pass between two batches
    pass_out,            \* <<>>, or <<what the pass returned and logged>>
    \* ---- models/base_model.py
    models               \* the BaseModel instances made by train_model, in order

mainVars == <<pc, run, epoch, early_stop_patience, early_stop_delta, best_val_loss,
          best_val_acc, val_losses, val_accs, train_losses, train_accs,
          learning_rates, no_improve_counter, is_early_stop,
          params, arg, save_queue, running, wpc, task,
          files, cfg, export, added, executed, failed>>

dirVars == <<now, experiment_dirs>>

\* the variables outside start(), the SaveManager and the run directory
accVars == <<outputs, labels, acc_out>>

cfgVars == <<config, calls>>

finVars == <<model_state, export_root>>

poolVars == <<threads>>

trainerVars == <<trainer_lists, trainers>>

passVars == <<dataset, loader, pass_state, pass_out>>

baseVars == <<models>>

extVars == <<dirVars, accVars, cfgVars, finVars, poolVars, trainerVars,
             passVars, baseVars>>

vars == <<mainVars, extVars>>

orchVars == <<run, epoch, early_stop_patience, early_stop_delta, best_val_loss,
              best_val_acc, val_losses, val_accs, train_losses, train_accs,
              learning_rates, no_improve_counter, is_early_stop, params>>
fsVars == <<files, cfg, export>>

NoTask == [kind |-> "none", epoch |-> 0, id |-> <<0, 0>>]

Last(s) == s[Len(s)]
Range(s) == {s[i] : i \in 1..Len(s)}
\* a history list that keeps its latest entry only
Record_Latest(list, v) == <<v>>

\* list.append(v)                                      (resnet.py:389-393)
Record(list, v) == Append(list, v)

\* max(self.best_val_acc, val_acc)                          (resnet.py:394)
Max_Latest(a, b) == b
Max(a, b) == IF a >= b THEN a ELSE b

\* ------------------------------------------------------------ pure helpers

\* an early-stop test that also takes an epoch for an improvement when it
\* reached the best validation accuracy
Improves_OrAcc(val_loss, best, delta) ==
    \/ best = INF
    \/ val_loss < best - delta
    \/ val_accs # <<>> /\ Last(val_accs) >= best_val_acc

\* val_loss < self.best_val_loss - self.early_stop_delta   (resnet.py:360)
\* (a comparison with nan is False, and inf < inf - delta is False)
Improves(val_loss, best, delta) ==
    IF val_loss \in NonFinite THEN FALSE
    ELSE IF best = INF THEN TRUE ELSE val_loss < best - delta

\* if model.val_accs[-1] < model.best_val_acc: return      (file_util.py:88)
SkipSave(accs, best) == Last(accs) < best

\* while self.running or not self.save_queue.empty()       (file_util.py:70)
LoopCond(r, q) == r \/ q # <<>>

\* add_task starting a thread on every call
NeedThread_Always(w) == TRUE

\* if not self.save_thread or not self.save_thread.is_alive() (file_util.py:64)
NeedThread(w) == w \in {"none", "dead"}

\* ------------------------------------------------------------------- Init
\* no experiment directory has been allocated
DirIdle == now = 0 /\ experiment_dirs = <<>>

\* _calculate_accuracy has not been called
AccIdle == outputs = <<>> /\ labels = <<>> /\ acc_out = <<>>

\* Config(): the defaults (learning rate and weight decay in units of 1e-4)
DefaultConfig ==
    [MODEL_TYPE |-> "resnet", EPOCHS |-> 100, BATCH_SIZE |-> 128,
     LEARNING_RATE |-> 10, WEIGHT_DECAY |-> 1, EARLY_STOPPING |-> TRUE,
     PATIENCE |-> 10, DELTA |-> 10]

\* config = Config(), train_model has not been called
CfgIdle == config = DefaultConfig /\ calls = <<>>

\* no run has reached model_util.save_final_model
FinIdle == model_state = <<>> /\ export_root = <<>>

\* add_task has started no thread
PoolIdle == threads = <<>>

\* class Trainer: train_losses = [], valid_losses = [], train_accs = [],
\* valid_accs = [], learning_rates = []
EmptyLists ==
    [train_losses |-> <<>>, valid_losses |-> <<>>, train_accs |-> <<>>,
     valid_accs |-> <<>>, learning_rates |-> <<>>]

\* the module executors.trainer is imported, no Trainer has been made
TrainerIdle == trainer_lists = EmptyLists /\ trainers = <<>>

\* no pass over a loader has begun
PassIdle ==
    dataset = <<>> /\ loader = <<>> /\ pass_state = <<>> /\ pass_out = <<>>

\* get_model has made no model
BaseIdle == models = <<>>

\* the variables of every part but `part` are at rest
ExtIdle(part) ==
    /\ part # "dir" => DirIdle
    /\ part # "acc" => AccIdle
    /\ part # "cfg" => CfgIdle
    /\ part # "fin" => FinIdle
    /\ part # "pool" => PoolIdle
    /\ part # "trainer" => TrainerIdle
    /\ part # "pass" => PassIdle
    /\ part # "base" => BaseIdle

ExtFrame(part) ==
    /\ IF part = "dir" THEN TRUE ELSE UNCHANGED dirVars
    /\ IF part = "acc" THEN TRUE ELSE UNCHANGED accVars
    /\ IF part = "cfg" THEN TRUE ELSE UNCHANGED cfgVars
    /\ IF part = "fin" THEN TRUE ELSE UNCHANGED finVars
    /\ IF part = "pool" THEN TRUE ELSE UNCHANGED poolVars
    /\ IF part = "trainer" THEN TRUE ELSE UNCHANGED trainerVars
    /\ IF part = "pass" THEN TRUE ELSE UNCHANGED passVars
    /\ IF part = "base" THEN TRUE ELSE UNCHANGED baseVars

\* no start() has been called, the SaveManager is as constructed
MainIdle(patience, delta) ==
    /\ pc = "idle"
    /\ run = 0
    /\ epoch = 0
    /\ early_stop_patience = patience
    /\ early_stop_delta = delta
    /\ best_val_loss = INF
    /\ best_val_acc = 0
    /\ val_losses = <<>>
    /\ val_accs = <<>>
    /\ train_losses = <<>>
    /\ train_accs = <<>>
    /\ learning_rates = <<>>
    /\ no_improve_counter = 0
    /\ is_early_stop = FALSE
    /\ params = <<0, 0>>
    /\ arg = NoTask
    /\ save_queue = <<>>
    /\ running = TRUE
    /\ wpc = "none"
    /\ task = NoTask
    /\ files = {}
    /\ cfg = <<>>
    /\ export = <<>>
    /\ added = <<>>
    /\ executed = <<>>
    /\ failed = {}

Init ==
    /\ pc = "idle"
    /\ run = 0
    /\ epoch = 0
    /\ early_stop_patience \in 1..MaxPatience
    /\ early_stop_delta = 0
    /\ best_val_loss = INF
    /\ best_val_acc = 0
    /\ val_losses = <<>>
    /\ val_accs = <<>>
    /\ train_losses = <<>>
    /\ train_accs = <<>>
    /\ learning_rates = <<>>
    /\ no_improve_counter = 0
    /\ is_early_stop = FALSE
    /\ params = <<0, 0>>
    /\ arg = NoTask
    /\ save_queue = <<>>
    /\ running = TRUE
    /\ wpc = "none"
    /\ task = NoTask
    /\ files = {}
    /\ cfg = <<>>
    /\ export = <<>>
    /\ added = <<>>
    /\ executed = <<>>
    /\ failed = {}
    /\ ExtIdle("main")

\* ------------------------------------------------------------ orchestrator

\* start(): _init_training_config, _init_training_state, _load_data.
\* create_experiment_dir gives the run its directory; here every start() of
\* the process begins in another minute, so that the directory is new.
Start ==
    /\ pc \in {"idle", "returned"}
    /\ run < MaxRuns
    /\ run' = run + 1
    /\ best_val_loss' = INF
    /\ best_val_acc' = 0
    /\ val_losses' = <<>>
    /\ val_accs' = <<>>
    /\ train_losses' = <<>>
    /\ train_accs' = <<>>
    /\ learning_rates' = <<>>
    /\ no_improve_counter' = 0
    /\ is_early_stop' = FALSE
    /\ params' = <<run + 1, 0>>
    /\ files' = {}
    /\ cfg' = <<>>
    /\ epoch' = 1
    /\ pc' = "train"
    /\ added' = <<>>
    /\ executed' = <<>>
    /\ failed' = {}
    /\ UNCHANGED extVars
    /\ UNCHANGED <<early_stop_patience, early_stop_delta, arg, save_queue,
                   running, wpc, task, export>>

\* _train(epoch): every batch steps the optimizer
Train ==
    /\ pc = "train"
    /\ params' = <<params[1], params[2] + 1>>
    /\ pc' = "eval"
    /\ UNCHANGED extVars
    /\ UNCHANGED <<run, epoch, early_stop_patience, early_stop_delta,
                   best_val_loss, best_val_acc, val_losses, val_accs,
                   train_losses, train_accs, learning_rates,
                   no_improve_counter, is_early_stop, arg,
                   save_queue, running, wpc, task, fsVars, added, executed, failed>>

\* _eval(epoch) and the bookkeeping of start() up to best_val_acc
Eval ==
    /\ pc = "eval"
    /\ \E train_loss \in TrainLossVals, train_acc \in TrainAccVals,
          val_loss \in LossVals, val_acc \in AccVals, current_lr \in LrVals :
         /\ train_losses' = Record(train_losses, train_loss)
         /\ train_accs' = Record(train_accs, train_acc)
         /\ val_losses' = Record(val_losses, val_loss)
         /\ val_accs' = Record(val_accs, val_acc)
         /\ learning_rates' = Record(learning_rates, current_lr)
         /\ best_val_acc' = Max(best_val_acc, val_acc)
    /\ pc' = "save"
    /\ UNCHANGED extVars
    /\ UNCHANGED <<run, epoch, early_stop_patience, early_stop_delta,
                   best_val_loss, no_improve_counter, is_early_stop, params,
                   arg, save_queue, running, wpc, task, fsVars,
                   added, executed, failed>>

\* _eval(epoch) when a batch's loss is inf or nan: total_loss, and with it
\* the epoch's val_loss, is not finite; nothing in _eval or start() tests it
EvalNonFinite ==
    /\ pc = "eval"
    /\ \E train_loss \in TrainLossVals, train_acc \in TrainAccVals,
          val_loss \in NonFinite, val_acc \in AccVals, current_lr \in LrVals :
         /\ train_losses' = Record(train_losses, train_loss)
         /\ train_accs' = Record(train_accs, train_acc)
         /\ val_losses' = Record(val_losses, val_loss)
         /\ val_accs' = Record(val_accs, val_acc)
         /\ learning_rates' = Record(learning_rates, current_lr)
         /\ best_val_acc' = Max(best_val_acc, val_acc)
    /\ pc' = "save"
    /\ UNCHANGED extVars
    /\ UNCHANGED <<run, epoch, early_stop_patience, early_stop_delta,
                   best_val_loss, no_improve_counter, is_early_stop, params,
                   arg, save_queue, running, wpc, task, fsVars,
                   added, executed, failed>>

\* save_checkpoint(self, epoch)
SaveCheckpoint ==
    /\ pc = "save"
    /\ IF SkipSave(val_accs, best_val_acc)
         THEN /\ pc' = "stop_check"
              /\ arg' = arg
         ELSE /\ pc' = "add_start"
              /\ arg' = [kind |-> "ckpt", epoch |-> epoch,
                         id |-> <<run, Len(added) + 1>>]
    /\ UNCHANGED extVars
    /\ UNCHANGED <<orchVars, save_queue, running, wpc, task, fsVars,
                   added, executed, failed>>

\* add_task, first half: (re)start the worker thread
AddTaskStart ==
    /\ pc = "add_start"
    /\ wpc' = IF NeedThread(wpc) THEN "check" ELSE wpc
    /\ pc' = "add_put"
    /\ UNCHANGED extVars
    /\ UNCHANGED <<orchVars, arg, save_queue, running, task, fsVars,
                   added, executed, failed>>

\* add_task on a queue of capacity one: put waits for a free slot
AddTaskPut_Bounded ==
    /\ pc = "add_put"
    /\ save_queue = <<>>
    /\ save_queue' = Append(save_queue, arg)
    /\ added' = Append(added, arg.id)
    /\ pc' = IF arg.kind = "ckpt" THEN "stop_check" ELSE "shutdown"
    /\ arg' = NoTask
    /\ UNCHANGED extVars
    /\ UNCHANGED <<orchVars, running, wpc, task, fsVars, executed, failed>>

\* add_task, second half: self.save_queue.put(task)
AddTaskPut ==
    /\ pc = "add_put"
    /\ save_queue' = Append(save_queue, arg)
    /\ added' = Append(added, arg.id)
    /\ pc' = IF arg.kind = "ckpt" THEN "stop_check" ELSE "shutdown"
    /\ arg' = NoTask
    /\ UNCHANGED extVars
    /\ UNCHANGED <<orchVars, running, wpc, task, fsVars, executed, failed>>

\* _check_early_stop stopping one evaluation late (> instead of >=)
EarlyStop_Late(val_loss) ==
    IF Improves(val_loss, best_val_loss, early_stop_delta)
      THEN /\ best_val_loss' = val_loss
           /\ no_improve_counter' = 0
           /\ is_early_stop' = is_early_stop
      ELSE /\ best_val_loss' = best_val_loss
           /\ no_improve_counter' = no_improve_counter + 1
           /\ is_early_stop' = IF no_improve_counter + 1 > early_stop_patience
                                 THEN TRUE ELSE is_early_stop

\* _check_early_stop(val_loss, epoch)
EarlyStop(val_loss) ==
    IF Improves(val_loss, best_val_loss, early_stop_delta)
      THEN /\ best_val_loss' = val_loss
           /\ no_improve_counter' = 0
           /\ is_early_stop' = is_early_stop
      ELSE /\ best_val_loss' = best_val_loss
           /\ no_improve_counter' = no_improve_counter + 1
           /\ is_early_stop' = IF no_improve_counter + 1 >= early_stop_patience
                                 THEN TRUE ELSE is_early_stop

\* the loop without the break
LoopExit_NoBreak(stop, e) == e = MaxEpochs

\* the loop over range(1, self.epochs)
LoopExit_OffByOne(stop, e) == stop \/ e = MaxEpochs - 1

\* if self.is_early_stop: break, or range(1, self.epochs + 1) is exhausted
LoopExit(stop, e) == stop \/ e = MaxEpochs

\* self._check_early_stop(val_loss, epoch), then the break / next iteration
CheckEarlyStop ==
    /\ pc = "stop_check"
    /\ EarlyStop(Last(val_losses))
    /\ IF LoopExit(is_early_stop', epoch)
         THEN pc' = "final" /\ epoch' = epoch
         ELSE pc' = "train" /\ epoch' = epoch + 1
    /\ UNCHANGED extVars
    /\ UNCHANGED <<run, early_stop_patience, early_stop_delta, best_val_acc,
                   val_losses, val_accs, train_losses, train_accs,
                   learning_rates, params, arg,
                   save_queue, running, wpc, task, fsVars, added, executed, failed>>

\* save_final_model(self)
SaveFinalModel ==
    /\ pc = "final"
    /\ arg' = [kind |-> "final", epoch |-> 0, id |-> <<run, Len(added) + 1>>]
    /\ pc' = "add_start"
    /\ UNCHANGED extVars
    /\ UNCHANGED <<orchVars, save_queue, running, wpc, task, fsVars,
                   added, executed, failed>>

\* shutdown(), first half: self.running = False
Shutdown ==
    /\ pc = "shutdown"
    /\ running' = FALSE
    /\ pc' = IF wpc = "none" THEN "returned" ELSE "join"
    /\ UNCHANGED extVars
    /\ UNCHANGED <<orchVars, arg, save_queue, wpc, task, fsVars,
                   added, executed, failed>>

\* shutdown(), second half: self.save_thread.join()
Join ==
    /\ pc = "join"
    /\ wpc = "dead"
    /\ pc' = "returned"
    /\ UNCHANGED extVars
    /\ UNCHANGED <<orchVars, arg, save_queue, running, wpc, task, fsVars,
                   added, executed, failed>>

\* ------------------------------------------------------------------ worker

\* the keys of the state dict written by _save_checkpoint  (file_util.py:129)
CheckpointKeys == {"model_class", "model_module", "epoch", "model_state_dict",
                   "optimizer_state_dict", "scheduler_state_dict"}

\* a final save that deletes the epoch entry only
StrippedKeys_Epoch == {"epoch"}

\* the keys _do_final_save deletes                          (file_util.py:109)
StrippedKeys == {"optimizer_state_dict", "scheduler_state_dict", "epoch"}

\* the .pth file _save_checkpoint(model, epoch) writes: the name carries the
\* closure's epoch and model.best_val_acc, the content model.state_dict(),
\* both read from the live model when the task runs
CheckpointFile(e, complete) ==
    [epoch |-> e, acc |-> best_val_acc, params |-> params,
     keys |-> CheckpointKeys, ok |-> complete]

\* the worker without the except clause: a raising task ends the thread
Finish_Uncaught(raised) ==
    /\ wpc' = IF raised THEN "dead" ELSE "check"
    /\ executed' = Append(executed, task.id)
    /\ failed' = IF raised THEN failed \cup {task.id} ELSE failed
    /\ task' = NoTask

\* except Exception: print; finally: self.save_queue.task_done(); the loop
\* goes back to its condition
Finish(raised) ==
    /\ wpc' = "check"
    /\ executed' = Append(executed, task.id)
    /\ failed' = IF raised THEN failed \cup {task.id} ELSE failed
    /\ task' = NoTask

\* while self.running or not self.save_queue.empty()
WCheck ==
    /\ wpc = "check"
    /\ wpc' = IF LoopCond(running, save_queue) THEN "get" ELSE "dead"
    /\ UNCHANGED extVars
    /\ UNCHANGED <<pc, orchVars, arg, save_queue, running, task, fsVars,
                   added, executed, failed>>

\* task = self.save_queue.get(): blocks while the queue is empty
WGet ==
    /\ wpc = "get"
    /\ save_queue # <<>>
    /\ task' = Head(save_queue)
    /\ save_queue' = Tail(save_queue)
    /\ wpc' = IF Head(save_queue).kind = "ckpt" THEN "rm" ELSE "export"
    /\ UNCHANGED extVars
    /\ UNCHANGED <<pc, orchVars, arg, running, fsVars, added, executed, failed>>

\* _save_checkpoint without the removal of the old files
RemoveOld_Keep(fs) == fs

\* model_files = [f for f in os.listdir(...) if f.endswith('.pth')], each removed
RemoveOld(fs) == {}

\* _save_checkpoint: remove every .pth file of model.experiment_dir
WRemoveOld ==
    /\ wpc = "rm"
    /\ files' = RemoveOld(files)
    /\ wpc' = "write"
    /\ UNCHANGED extVars
    /\ UNCHANGED <<pc, orchVars, arg, save_queue, running, task, cfg, export,
                   added, executed, failed>>

\* _save_checkpoint: torch.save(state, checkpoint_path)
WWrite ==
    /\ wpc = "write"
    /\ files' = files \cup {CheckpointFile(task.epoch, TRUE)}
    /\ wpc' = "config"
    /\ UNCHANGED extVars
    /\ UNCHANGED <<pc, orchVars, arg, save_queue, running, task, cfg, export,
                   added, executed, failed>>

\* torch.save raises (disk full, I/O error): nothing or a truncated file is left
WWriteFail ==
    /\ wpc = "write"
    /\ \E partial \in BOOLEAN :
         files' = IF partial THEN files \cup {CheckpointFile(task.epoch, FALSE)}
                             ELSE files
    /\ Finish(TRUE)
    /\ UNCHANGED extVars
    /\ UNCHANGED <<pc, orchVars, arg, save_queue, running, cfg, export, added>>

\* _save_checkpoint: save_training_config(model)
WConfig ==
    /\ wpc = "config"
    /\ cfg' = <<best_val_acc>>
    /\ Finish(FALSE)
    /\ UNCHANGED extVars
    /\ UNCHANGED <<pc, orchVars, arg, save_queue, running, files, export, added>>

\* _do_final_save: first .pth of model.experiment_dir, without the stripped keys
WFinalSave ==
    /\ wpc = "export"
    /\ IF files = {}
         THEN export' = export
         ELSE \E f \in files :
                /\ f.ok
                /\ export' = <<[params |-> f.params,
                                 keys |-> f.keys \ StrippedKeys]>>
    /\ Finish(FALSE)
    /\ UNCHANGED extVars
    /\ UNCHANGED <<pc, orchVars, arg, save_queue, running, files, cfg, added>>

\* os.remove / torch.load / the final torch.save raises inside the task
WRaise ==
    /\ wpc \in {"rm", "export"}
    /\ wpc = "export" => files # {}
    /\ Finish(TRUE)
    /\ UNCHANGED extVars
    /\ UNCHANGED <<pc, orchVars, arg, save_queue, running, fsVars, added>>

\* ---------------------------------------------------------- specification
Orchestrator ==
    \/ Start \/ Train \/ Eval \/ SaveCheckpoint \/ AddTaskStart \/ AddTaskPut
    \/ CheckEarlyStop \/ SaveFinalModel \/ Shutdown \/ Join

Worker ==
    \/ WCheck \/ WGet \/ WRemoveOld \/ WWrite \/ WWriteFail \/ WConfig
    \/ WFinalSave \/ WRaise

Next == Orchestrator \/ Worker

Spec == Init /\ [][Next]_vars

\* the worker thread is scheduled and every step of a task terminates
FairSpec == Spec /\ WF_vars(Worker) /\ WF_vars(Orchestrator)

\* ------------------------------------------- early-stop machine, scripted
\* _check_early_stop driven by a scripted sequence of validation losses
\* (units of 0.01: 1.0 is 100, delta 0.01 is 1)
ESMaxEvals == 5
ESMaxPatience == 3
ESMaxDelta == 1
ESLossVals == {90, 95, 96, 97, 100}

InitES ==
    /\ pc = "es"
    /\ run = 0
    /\ epoch = 0
    /\ early_stop_patience \in 1..ESMaxPatience
    /\ early_stop_delta \in 0..ESMaxDelta
    /\ best_val_loss = INF
    /\ best_val_acc = 0
    /\ val_losses = <<>>
    /\ val_accs = <<>>
    /\ train_losses = <<>>
    /\ train_accs = <<>>
    /\ learning_rates = <<>>
    /\ no_improve_counter = 0
    /\ is_early_stop = FALSE
    /\ params = <<0, 0>>
    /\ arg = NoTask
    /\ save_queue = <<>>
    /\ running = TRUE
    /\ wpc = "none"
    /\ task = NoTask
    /\ files = {}
    /\ cfg = <<>>
    /\ export = <<>>
    /\ added = <<>>
    /\ executed = <<>>
    /\ failed = {}
    /\ ExtIdle("main")

\* one completed epoch while RUNNING: its validation loss is evaluated
ESEvaluate ==
    /\ pc = "es"
    /\ ~is_early_stop
    /\ Len(val_losses) < ESMaxEvals
    /\ \E val_loss \in ESLossVals :
         /\ val_losses' = Append(val_losses, val_loss)
         /\ EarlyStop(val_loss)
    /\ UNCHANGED extVars
    /\ UNCHANGED <<pc, run, epoch, early_stop_patience, early_stop_delta,
                   best_val_acc, val_accs, train_losses, train_accs,
                   learning_rates, params, arg, save_queue, running,
                   wpc, task, fsVars, added, executed, failed>>

NextES == ESEvaluate

SpecES == InitES /\ [][NextES]_vars

\* ------------------------------------------------- the thread of start()
\* start() up to shutdown()'s join, for every patience up to LoopMaxPatience;
\* the worker is not scheduled
LoopMaxPatience == 3

InitLoop ==
    /\ \E patience \in 1..LoopMaxPatience : MainIdle(patience, 0)
    /\ ExtIdle("main")

NextLoop ==
    \/ Start \/ Train \/ Eval \/ SaveCheckpoint \/ AddTaskStart \/ AddTaskPut
    \/ CheckEarlyStop \/ SaveFinalModel \/ Shutdown

SpecLoop == InitLoop /\ [][NextLoop]_vars

\* the same thread when validation passes may produce a non-finite loss
NextNonFinite == NextLoop \/ EvalNonFinite

SpecNonFinite == InitLoop /\ [][NextNonFinite]_vars

\* ------------------------------------------------ experiment directories
\* create_experiment_dir called by the runs of one machine; two calls with no
\* tick between them are two runs started at the same time
MaxNow == 61        \* the clock stops at MaxNow seconds
MaxDirs == 2        \* runs that allocate a directory
SecondsPerMinute == 60

ModelNames == {"resnet_multi_head", "resnet18"}
BatchSizes == {64, 128}
LearningRates == {1}

\* datetime.now().strftime("%Y-%m-%d_%H-%M"): the time cut to the minute
Timestamp(t) == t \div SecondsPerMinute

\* os.path.join(CHECKPOINT_ROOT, EXPERIMENT_FORMAT.format(**params)): the
\* path is made of the four entries of params and of nothing else
ExperimentDir(t, model_name, batch_size, lr) ==
    <<Timestamp(t), model_name, batch_size, lr>>

InitDir ==
    /\ MainIdle(1, 0)
    /\ ExtIdle("dir")
    /\ now = 0
    /\ experiment_dirs = <<>>

\* time passes
Tick ==
    /\ now < MaxNow
    /\ now' = now + 1
    /\ UNCHANGED <<mainVars, experiment_dirs>>
    /\ ExtFrame("dir")

\* create_experiment_dir(model_name, model_params); os.makedirs(exist_ok=True)
\* accepts a directory that is already there
CreateExperimentDir ==
    /\ Len(experiment_dirs) < MaxDirs
    /\ \E model_name \in ModelNames, batch_size \in BatchSizes,
          lr \in LearningRates :
         experiment_dirs' = Append(experiment_dirs,
                               ExperimentDir(now, model_name, batch_size, lr))
    /\ UNCHANGED <<mainVars, now>>
    /\ ExtFrame("dir")

NextDir == Tick \/ CreateExperimentDir

SpecDir == InitDir /\ [][NextDir]_vars

\* --------------------------------------------------- _calculate_accuracy
MaxCells == 4       \* L * B, positions times samples of a batch

Classes == {0, 1}
LogitVals == {0, 1}
LogitRows == [Classes -> LogitVals]
Shapes == {<<L, B>> \in (1..MaxCells) \X (1..MaxCells) : L * B <= MaxCells}

\* the batch of the example: one sample, four positions, classes 0..4, each
\* head's logits peaked at the predicted class
ExamplePreds == <<0, 1, 2, 3>>
ExampleLabels == <<<<0, 1, 2, 4>>>>
ExampleOutputs ==
    [i \in 1..4 |-> <<[c \in 0..4 |-> IF c = ExamplePreds[i] THEN 1 ELSE 0]>>]

\* output.argmax(1): the index of the first maximal logit
Argmax(row) ==
    CHOOSE c \in DOMAIN row :
        /\ \A d \in DOMAIN row : row[d] <= row[c]
        /\ \A d \in DOMAIN row : d < c => row[d] < row[c]

\* torch.stack([output.argmax(1) for output in outputs], dim=1)
Preds(outs, B) ==
    [b \in 1..B |-> [i \in 1..Len(outs) |-> Argmax(outs[i][b])]]

\* a sample counts when some position matches
RowCorrect_Any(pred, label) ==
    \E i \in 1..Len(label) : pred[i] = label[i]

\* (preds == labels).all(dim=1)
RowCorrect(pred, label) ==
    \A i \in 1..Len(label) : pred[i] = label[i]

InitAcc ==
    /\ MainIdle(1, 0)
    /\ ExtIdle("acc")
    /\ acc_out = <<>>
    /\ \/ \E shape \in Shapes :
            /\ outputs \in [1..shape[1] -> [1..shape[2] -> LogitRows]]
            /\ labels \in [1..shape[2] -> [1..shape[1] -> Classes]]
       \/ /\ outputs = ExampleOutputs
          /\ labels = ExampleLabels

\* _calculate_accuracy(outputs, labels): (all_correct / labels.size(0), preds);
\* the quotient is kept as <<numerator, denominator>>
CalculateAccuracy ==
    /\ acc_out = <<>>
    /\ LET preds == Preds(outputs, Len(labels))
           all_correct ==
               Cardinality({b \in 1..Len(labels) :
                               RowCorrect(preds[b], labels[b])})
       IN acc_out' = <<[acc |-> <<all_correct, Len(labels)>>,
                        preds |-> preds]>>
    /\ UNCHANGED <<mainVars, outputs, labels>>
    /\ ExtFrame("acc")

NextAcc == CalculateAccuracy

SpecAcc == InitAcc /\ [][NextAcc]_vars

\* ------------------------------------------------- scripts/train.py
MaxCalls == 2       \* train_model calls in one process

\* None, for a number and for a string
None == 0 - 1
NoneStr == "None"

ModelTypeArgs == {NoneStr, "cnn"}
EpochsArgs == {None, 5}
BatchSizeArgs == {None, 64}
LearningRateArgs == {None, 0, 5}

\* `if x:` for a number or None, and for a string or None
Truthy(x) == x # None /\ x # 0
TruthyStr(x) == x # NoneStr /\ x # ""

InitCfg ==
    /\ MainIdle(1, 0)
    /\ ExtIdle("cfg")
    /\ config = DefaultConfig
    /\ calls = <<>>

\* train_model(model_type, epochs, batch_size, learning_rate): the update of
\* the module global config
TrainModel ==
    /\ Len(calls) < MaxCalls
    /\ \E model_type \in ModelTypeArgs, epochs \in EpochsArgs,
          batch_size \in BatchSizeArgs, learning_rate \in LearningRateArgs :
         /\ config' =
              [config EXCEPT
                 !.MODEL_TYPE = IF TruthyStr(model_type) THEN model_type ELSE @,
                 !.EPOCHS = IF Truthy(epochs) THEN epochs ELSE @,
                 !.BATCH_SIZE = IF Truthy(batch_size) THEN batch_size ELSE @,
                 !.LEARNING_RATE =
                     IF Truthy(learning_rate) THEN learning_rate ELSE @]
         /\ calls' = Append(calls, [model_type |-> model_type,
                                    epochs |-> epochs,
                                    batch_size |-> batch_size,
                                    learning_rate |-> learning_rate])
    /\ UNCHANGED mainVars
    /\ ExtFrame("cfg")

NextCfg == TrainModel

SpecCfg == InitCfg /\ [][NextCfg]_vars

\* ------------------------------------------ model_util.save_final_model
\* the model at the end of a run; accuracies in units of 0.0001, the
\* precision of the checkpoint names
MaxFinalAcc == 3
MaxFinalEpoch == 2  \* model.current_epoch is 1..MaxFinalEpoch
MaxFinalFiles == 2  \* .pth files in model.experiment_dir

FinalAccs == 0..MaxFinalAcc

\* a .pth file written by model_util.save_checkpoint at some epoch: the
\* accuracy in its name and the epoch whose state_dict it holds
FinalCkpts == [acc : FinalAccs, epoch : 1..MaxFinalEpoch]

InitFinal ==
    /\ MainIdle(1, 0)
    /\ ExtIdle("fin")
    /\ export_root = <<>>
    /\ \E early_stop \in BOOLEAN, acc \in FinalAccs,
          current_epoch \in 1..MaxFinalEpoch, pths \in SUBSET FinalCkpts :
         /\ Cardinality(pths) <= MaxFinalFiles
         /\ \A f \in pths : f.epoch <= current_epoch
         /\ model_state = <<[early_stop |-> early_stop, best_val_acc |-> acc,
                             current_epoch |-> current_epoch, pths |-> pths]>>

\* the loop over os.listdir(experiment_dir): a file whose name carries the
\* greatest accuracy above 0 among the .pth files; {} when there is none
BestModel(pths) ==
    {f \in pths : f.acc > 0 /\ \A g \in pths : g.acc <= f.acc}

\* if hasattr(model, 'best_val_acc') and model.best_val_acc > 0:
\*     config_dict['results'] = {..., 'stopped_early': model.early_stop}
Results(m) ==
    IF m.best_val_acc > 0
      THEN <<[best_accuracy |-> m.best_val_acc, stopped_early |-> m.early_stop]>>
      ELSE <<>>

\* save_final_model(model): after an early stop with a checkpoint, copy it and
\* return; otherwise save model.state_dict(), the parameters of the current
\* epoch, under the name of best_val_acc, and write <type>_config.json
SaveFinalModelUtil ==
    /\ export_root = <<>>
    /\ LET m == model_state[1] IN
         IF m.early_stop /\ BestModel(m.pths) # {}
           THEN \E best \in BestModel(m.pths) :
                  export_root' = <<[pth |-> [kind |-> "best", acc |-> best.acc,
                                             epoch |-> best.epoch],
                                    config |-> <<>>]>>
           ELSE export_root' =
                  <<[pth |-> [kind |-> "final", acc |-> m.best_val_acc,
                              epoch |-> m.current_epoch],
                     config |-> <<[results |-> Results(m)]>>]>>
    /\ UNCHANGED <<mainVars, model_state>>
    /\ ExtFrame("fin")

NextFinal == SaveFinalModelUtil

SpecFinal == InitFinal /\ [][NextFinal]_vars

\* ------------------------------------------- SaveManager and its threads
\* any sequence of add_task and shutdown calls on one SaveManager, with every
\* thread that add_task starts kept apart
MaxTasks == 3       \* add_task calls

\* self.save_thread: None, or the position of the thread made last
SaveThread == IF threads = <<>> THEN "none" ELSE Last(threads).wpc

\* threading.Thread(target=self._process_queue, daemon=True).start()
NewThread == [wpc |-> "check", task |-> NoTask]

InitPool ==
    /\ MainIdle(1, 0)
    /\ ExtIdle("pool")
    /\ threads = <<>>

\* add_task(task), under self.lock: start a thread when none is alive
PoolAddTaskStart ==
    /\ pc = "idle"
    /\ Len(added) < MaxTasks
    /\ threads' = IF NeedThread(SaveThread) THEN Append(threads, NewThread)
                                             ELSE threads
    /\ arg' = [kind |-> "ckpt", epoch |-> 0, id |-> <<0, Len(added) + 1>>]
    /\ pc' = "add_put"
    /\ UNCHANGED <<orchVars, save_queue, running, wpc, task, fsVars,
                   added, executed, failed>>
    /\ ExtFrame("pool")

\* add_task(task), still under the lock: self.save_queue.put(task)
PoolAddTaskPut ==
    /\ pc = "add_put"
    /\ save_queue' = Append(save_queue, arg)
    /\ added' = Append(added, arg.id)
    /\ arg' = NoTask
    /\ pc' = "idle"
    /\ UNCHANGED <<orchVars, running, wpc, task, fsVars, executed, failed,
                   threads>>
    /\ ExtFrame("pool")

\* shutdown(): self.running = False; if self.save_thread: join
PoolShutdown ==
    /\ pc = "idle"
    /\ running' = FALSE
    /\ pc' = IF threads = <<>> THEN "idle" ELSE "join"
    /\ UNCHANGED <<orchVars, arg, save_queue, wpc, task, fsVars,
                   added, executed, failed, threads>>
    /\ ExtFrame("pool")

\* self.save_thread.join() returns when that thread has ended
PoolJoin ==
    /\ pc = "join"
    /\ SaveThread = "dead"
    /\ pc' = "idle"
    /\ UNCHANGED <<orchVars, arg, save_queue, running, wpc, task, fsVars,
                   added, executed, failed, threads>>
    /\ ExtFrame("pool")

\* thread i: while self.running or not self.save_queue.empty()
ThreadCheck(i) ==
    /\ threads[i].wpc = "check"
    /\ threads' = [threads EXCEPT ![i].wpc =
                       IF LoopCond(running, save_queue) THEN "get" ELSE "dead"]
    /\ UNCHANGED mainVars
    /\ ExtFrame("pool")

\* thread i: task = self.save_queue.get(), blocking while the queue is empty
ThreadGet(i) ==
    /\ threads[i].wpc = "get"
    /\ save_queue # <<>>
    /\ threads' = [threads EXCEPT ![i] = [wpc |-> "run",
                                          task |-> Head(save_queue)]]
    /\ save_queue' = Tail(save_queue)
    /\ UNCHANGED <<pc, orchVars, arg, running, wpc, task, fsVars,
                   added, executed, failed>>
    /\ ExtFrame("pool")

\* thread i: task() returns or raises; except, finally, back to the condition
ThreadRun(i) ==
    /\ threads[i].wpc = "run"
    /\ \E raised \in BOOLEAN :
         failed' = IF raised THEN failed \cup {threads[i].task.id} ELSE failed
    /\ executed' = Append(executed, threads[i].task.id)
    /\ threads' = [threads EXCEPT ![i] = NewThread]
    /\ UNCHANGED <<pc, orchVars, arg, save_queue, running, wpc, task, fsVars,
                   added>>
    /\ ExtFrame("pool")

PoolThread == \E i \in 1..Len(threads) :
                  ThreadCheck(i) \/ ThreadGet(i) \/ ThreadRun(i)

NextPool ==
    \/ PoolAddTaskStart \/ PoolAddTaskPut \/ PoolShutdown \/ PoolJoin
    \/ PoolThread

SpecPool == InitPool /\ [][NextPool]_vars

\* ------------------------------------------------- executors/trainer.py
\* Trainer instances made and trained one after the other in one process;
\* losses and config.DELTA in units of 0.0001
MaxTrainers == 2         \* Trainer instances
TrainerMaxEpochs == 3    \* config.EPOCHS
TrainerMaxPatience == 2  \* config.PATIENCE is 1..TrainerMaxPatience

\* the attributes a new instance reads from the class: best_valid_loss =
\* float('inf'), best_valid_acc = 0.0, no_improve = 0, early_stop = False,
\* current_epoch = 0
NewTrainer ==
    [pc |-> "made", best_valid_loss |-> INF, best_valid_acc |-> 0,
     no_improve |-> 0, early_stop |-> FALSE, current_epoch |-> 0]

\* one entry of a history list: the float, with the instance and the epoch
\* that appended it
Entry(t, e, v) == [by |-> t, epoch |-> e, v |-> v]

InitTrainer ==
    /\ MainIdle(1, 0)
    /\ DirIdle /\ AccIdle /\ FinIdle /\ PoolIdle /\ PassIdle /\ BaseIdle
    /\ calls = <<>>
    /\ \E patience \in 1..TrainerMaxPatience :
         config = [DefaultConfig EXCEPT !.EPOCHS = TrainerMaxEpochs,
                                        !.PATIENCE = patience]
    /\ trainer_lists = EmptyLists
    /\ trainers = <<>>

\* Trainer(model), after the train() of the instance made before has ended
TrainerInit ==
    /\ Len(trainers) < MaxTrainers
    /\ trainers # <<>> => Last(trainers).pc = "raised"
    /\ trainers' = Append(trainers, NewTrainer)
    /\ UNCHANGED <<mainVars, trainer_lists>>
    /\ ExtFrame("trainer")

\* train(): one iteration of the loop over range(1, config.EPOCHS + 1).
\* save_checkpoint(self) reads self.val_accs, which a Trainer does not have,
\* and raises AttributeError out of train()
TrainerEpoch ==
    /\ trainers # <<>>
    /\ LET t == Len(trainers)
           self == trainers[t]
           epoch_ == self.current_epoch + 1
       IN
       /\ self.pc \in {"made", "loop"}
       /\ epoch_ <= config.EPOCHS
       /\ \E train_loss \in TrainLossVals, train_acc \in TrainAccVals,
             valid_loss \in LossVals, valid_acc \in AccVals,
             current_lr \in LrVals :
            /\ trainer_lists' =
                 [learning_rates |->
                      Append(trainer_lists.learning_rates,
                             Entry(t, epoch_, current_lr)),
                  train_losses |->
                      Append(trainer_lists.train_losses,
                             Entry(t, epoch_, train_loss)),
                  train_accs |->
                      Append(trainer_lists.train_accs,
                             Entry(t, epoch_, train_acc)),
                  valid_losses |->
                      Append(trainer_lists.valid_losses,
                             Entry(t, epoch_, valid_loss)),
                  valid_accs |->
                      Append(trainer_lists.valid_accs,
                             Entry(t, epoch_, valid_acc))]
            /\ IF valid_acc > self.best_valid_acc
                 THEN trainers' = [trainers EXCEPT ![t] =
                          [self EXCEPT !.current_epoch = epoch_,
                                       !.best_valid_acc = valid_acc,
                                       !.best_valid_loss = valid_loss,
                                       !.no_improve = 0,
                                       !.pc = "raised"]]
                 ELSE LET stop == /\ config.EARLY_STOPPING
                                  /\ self.no_improve + 1 >= config.PATIENCE
                      IN trainers' = [trainers EXCEPT ![t] =
                          [self EXCEPT !.current_epoch = epoch_,
                                       !.no_improve = self.no_improve + 1,
                                       !.early_stop = IF stop THEN TRUE ELSE @,
                                       !.pc = IF stop \/ epoch_ = config.EPOCHS
                                                THEN "final" ELSE "loop"]]
    /\ UNCHANGED mainVars
    /\ ExtFrame("trainer")

\* save_final_model(self): model.best_val_acc (after an early stop) or
\* model.model_type is read, a Trainer has neither: AttributeError
TrainerFinal ==
    /\ trainers # <<>>
    /\ Last(trainers).pc = "final"
    /\ trainers' = [trainers EXCEPT ![Len(trainers)].pc = "raised"]
    /\ UNCHANGED <<mainVars, trainer_lists>>
    /\ ExtFrame("trainer")

NextTrainer == TrainerInit \/ TrainerEpoch \/ TrainerFinal

SpecTrainer == InitTrainer /\ [][NextTrainer]_vars

\* ------------------------------------------- a pass of _train or _eval
\* one pass over a DataLoader without drop_last: the batches hold batch_size
\* samples each, the last one the rest.  Quotients are kept exact, as
\* <<numerator, denominator>>.
MaxSamples == 3      \* len(dataset)
MaxBatchSize == 2    \* batch_size is 1..MaxBatchSize

PassKinds == {"train", "eval"}
CaptchaLengths == {1, 2}

\* a sample after the forward pass: preds[b] and labels[b]
Samples(L) == [pred : [1..L -> Classes], label : [1..L -> Classes]]

\* a / b + c / d, a / b divided by n, and a / b = c / d
RatAdd(x, y) == <<x[1] * y[2] + y[1] * x[2], x[2] * y[2]>>
RatDiv(x, n) == <<x[1], x[2] * n>>
RatEq(x, y) == x[1] * y[2] = y[1] * x[2]

InitPass ==
    /\ MainIdle(1, 0)
    /\ ExtIdle("pass")
    /\ \E kind \in PassKinds, batch_size \in 1..MaxBatchSize,
          L \in CaptchaLengths, n \in 1..MaxSamples :
         /\ loader = <<[kind |-> kind, batch_size |-> batch_size,
                        captcha_length |-> L]>>
         /\ dataset \in [1..n -> Samples(L)]
         /\ pass_state = <<[seen |-> 0, batches |-> 0, total_acc |-> <<0, 1>>,
                            position_acc |-> [pos \in 1..L |-> <<0, 1>>]]>>
    /\ pass_out = <<>>

\* the next batch of the loader
NextBatch ==
    LET first == pass_state[1].seen + 1
        last == IF pass_state[1].seen + loader[1].batch_size < Len(dataset)
                  THEN pass_state[1].seen + loader[1].batch_size
                  ELSE Len(dataset)
    IN SubSeq(dataset, first, last)

\* total_acc / len(loader), the sum of the batch accuracies over the number
\* of batches
PassAcc(st) == RatDiv(st.total_acc, st.batches)

\* one iteration of `for images, labels in val_bar` / `in progress_bar`:
\* total_acc += full_acc; in _eval, pos_correct = [0] * captcha_length and
\* position_acc[pos] = pos_correct[pos] / labels.size(0) for the batch
PassBatch ==
    /\ pass_out = <<>>
    /\ pass_state[1].seen < Len(dataset)
    /\ LET st == pass_state[1]
           batch == NextBatch
           size == Len(batch)
           all_correct ==
               Cardinality({b \in 1..size :
                               RowCorrect(batch[b].pred, batch[b].label)})
           pos_correct(pos) ==
               Cardinality({b \in 1..size :
                               batch[b].pred[pos] = batch[b].label[pos]})
       IN pass_state' =
            <<[seen |-> st.seen + size,
               batches |-> st.batches + 1,
               total_acc |-> RatAdd(st.total_acc, <<all_correct, size>>),
               position_acc |->
                   IF loader[1].kind = "eval"
                     THEN [pos \in 1..loader[1].captcha_length |->
                              <<pos_correct(pos), size>>]
                     ELSE st.position_acc]>>
    /\ UNCHANGED <<mainVars, dataset, loader, pass_out>>
    /\ ExtFrame("pass")

\* after the last batch: log_char_pos_acc(position_acc, epoch) in _eval, and
\* return total_loss / len(loader), total_acc / len(loader)
PassReturn ==
    /\ pass_out = <<>>
    /\ pass_state[1].seen = Len(dataset)
    /\ pass_out' = <<[acc |-> PassAcc(pass_state[1]),
                      position_acc |-> pass_state[1].position_acc]>>
    /\ UNCHANGED <<mainVars, dataset, loader, pass_state>>
    /\ ExtFrame("pass")

NextPass == PassBatch \/ PassReturn

SpecPass == InitPass /\ [][NextPass]_vars

\* ------------------------------------------------- models/base_model.py
\* scripts/train.py: train_model updates config, makes a model and calls its
\* train_model().  An attribute is <<>> when it is None, <<v>> otherwise.
MaxModels == 1      \* train_model calls that reach model.train_model()

NoValue == <<>>
Value(v) == <<v>>

\* model = get_model(config.MODEL_TYPE): BaseModel.__init__ sets no training
\* state
NewModel ==
    [pc |-> "made", epoch |-> 0, current_epoch |-> NoValue,
     best_val_acc |-> NoValue, best_val_loss |-> NoValue,
     no_improve_count |-> NoValue, early_stop |-> NoValue,
     train_losses |-> <<>>, train_accs |-> <<>>, val_losses |-> <<>>,
     val_accs |-> <<>>, learning_rates |-> <<>>, checkpoint |-> NoValue]

\* _init_training_state: the assignments of lines 63-72, then those of lines
\* 73-77, which bind the same attributes to None
InitTrainingState(m) ==
    LET first == [m EXCEPT !.current_epoch = Value(0),
                           !.best_val_acc = Value(0),
                           !.best_val_loss = Value(INF),
                           !.no_improve_count = Value(0),
                           !.early_stop = Value(FALSE),
                           !.train_losses = <<>>, !.train_accs = <<>>,
                           !.val_losses = <<>>, !.val_accs = <<>>,
                           !.learning_rates = <<>>]
    IN [first EXCEPT !.current_epoch = NoValue,
                     !.early_stop = NoValue,
                     !.no_improve_count = NoValue,
                     !.best_val_loss = NoValue,
                     !.best_val_acc = NoValue]

InitBase ==
    /\ MainIdle(1, 0)
    /\ ExtIdle("cfg")
    /\ config = DefaultConfig
    /\ calls = <<>>

\* train_model(...) of scripts/train.py up to get_model, when the call
\* before it has ended
ScriptTrainModel ==
    /\ Len(calls) < MaxModels
    /\ Len(models) = Len(calls)
    /\ models # <<>> => Last(models).pc \in {"raised", "returned"}
    /\ TrainModel

\* model = get_model(config.MODEL_TYPE); model.train_model() up to the loop
BaseTrainModel ==
    /\ Len(models) < Len(calls)
    /\ models' = Append(models, [InitTrainingState(NewModel) EXCEPT
                                     !.pc = "loop"])
    /\ UNCHANGED <<mainVars, dirVars, accVars, cfgVars, finVars, poolVars,
                   trainerVars, passVars>>

\* one iteration of the loop of BaseModel.train_model.  A comparison or an
\* addition with None raises TypeError out of train_model.
BaseEpoch ==
    /\ models # <<>>
    /\ LET k == Len(models)
           self == models[k]
           epoch_ == self.epoch + 1
       IN
       /\ self.pc = "loop"
       /\ epoch_ <= config.EPOCHS
       /\ \E train_loss \in TrainLossVals, train_acc \in TrainAccVals,
             val_loss \in LossVals, val_acc \in AccVals,
             current_lr \in LrVals :
            LET logged ==
                    [self EXCEPT
                       !.epoch = epoch_,
                       !.current_epoch = Value(epoch_),
                       !.train_losses = Append(@, train_loss),
                       !.train_accs = Append(@, train_acc),
                       !.val_losses = Append(@, val_loss),
                       !.val_accs = Append(@, val_acc),
                       !.learning_rates = Append(@, current_lr)]
                \* if val_acc > self.best_val_acc: ... else: ...
                compared ==
                    IF self.best_val_acc = NoValue
                      THEN [logged EXCEPT !.pc = "raised"]
                    ELSE IF val_acc > self.best_val_acc[1]
                      THEN [logged EXCEPT !.best_val_acc = Value(val_acc),
                                          !.best_val_loss = Value(val_loss),
                                          !.no_improve_count = Value(0),
                                          !.checkpoint = Value(epoch_)]
                    ELSE IF self.no_improve_count = NoValue
                      THEN [logged EXCEPT !.pc = "raised"]
                    ELSE [logged EXCEPT !.no_improve_count = Value(@[1] + 1)]
                \* if config.EARLY_STOPPING and
                \*    self.no_improve_count >= config.PATIENCE
                stopped ==
                    IF compared.pc = "raised" \/ ~config.EARLY_STOPPING
                      THEN compared
                    ELSE IF compared.no_improve_count = NoValue
                      THEN [compared EXCEPT !.pc = "raised"]
                    ELSE IF compared.no_improve_count[1] >= config.PATIENCE
                      THEN [compared EXCEPT !.early_stop = Value(TRUE),
                                            !.pc = "final"]
                    ELSE compared
            IN models' = [models EXCEPT ![k] =
                   IF stopped.pc = "loop" /\ epoch_ = config.EPOCHS
                     THEN [stopped EXCEPT !.pc = "final"] ELSE stopped]
    /\ UNCHANGED <<mainVars, dirVars, accVars, cfgVars, finVars, poolVars,
                   trainerVars, passVars>>

NextBase == ScriptTrainModel \/ BaseTrainModel \/ BaseEpoch

SpecBase == InitBase /\ [][NextBase]_vars

\* ======================================================================
\* Properties
\* ======================================================================

\* C1: drain-before-return.  When shutdown() has returned, every task that was
\* passed to add_task before it has been executed exactly once, in the order
\* in which the tasks were added.
C1_DrainBeforeReturn ==
    pc = "returned" => executed = added

\* C1 for the first start() of the process only (running is still True when
\* the tasks are added)
C1_FirstRunDrained ==
    (pc = "returned" /\ run = 1) => executed = added

\* C2: shutdown() always returns; in particular the worker is never blocked
\* in save_queue.get() on an empty queue after running has become False.
C2_NoBlockedWorker ==
    ~(running = FALSE /\ save_queue = <<>> /\ wpc = "get")

\* C2 as progress of the orchestrator: a shutdown() that has set running to
\* False returns
C2_ShutdownReturns ==
    (pc = "join") ~> (pc = "returned")

\* C3: at most one checkpoint.  When every enqueued task has been executed
\* (the queue is empty and the worker holds no task), the run directory
\* contains zero or one .pth file.
C3_AtMostOneCheckpoint ==
    (save_queue = <<>> /\ task = NoTask) => Cardinality(files) <= 1

\* two checkpoint saves of one run have been executed, one of them failed,
\* and the directory holds one checkpoint
C3_Witness ==
    /\ save_queue = <<>> /\ task = NoTask
    /\ pc \in {"train", "eval"}
    /\ Len(executed) >= 2
    /\ failed # {}
    /\ Cardinality(files) = 1

\* C4: atomic replacement.  Once a checkpoint has been written into the run
\* directory (training_config.json is written right after the first
\* successful torch.save), the directory holds exactly one checkpoint file
\* in every later state.
C4_AtomicReplace ==
    cfg # <<>> => Cardinality(files) = 1

\* the ids of the current run in a sequence of task ids
RunIds(s) == SelectSeq(s, LAMBDA id : id[1] = run)
QueueIds == [i \in 1..Len(save_queue) |-> save_queue[i].id]
HeldIds == IF task = NoTask THEN <<>> ELSE <<task.id>>

\* C5: failure isolation.  A step in which a task raises leaves the worker in
\* its loop (back at the loop condition), changes nothing of the orchestrator
\* and keeps every queued task; the worker never leaves its loop while a task
\* is queued; and once a task has raised, the tasks of the run are still
\* exactly the executed ones, the one being executed and the queued ones, in
\* the order in which they were added: none is dropped or skipped.
C5_Isolated ==
    [][failed' # failed /\ failed' # {} =>
          /\ wpc' = "check"
          /\ pc' = pc
          /\ arg' = arg
          /\ UNCHANGED orchVars
          /\ save_queue' = save_queue]_vars

C5_LoopKept ==
    [][wpc' = "dead" /\ wpc # "dead" => save_queue = <<>>]_vars

C5_NoTaskLost ==
    failed # {} => RunIds(executed \o HeldIds \o QueueIds) = added

C5_StillExecuted ==
    (failed # {} /\ save_queue # <<>> /\ wpc \notin {"none", "dead"})
        ~> (save_queue = <<>> /\ task = NoTask)

C6_NonBlockingEnqueue ==
    pc \notin {"idle", "join", "returned"} => ENABLED Orchestrator

\* the orchestrator trains the next epoch while the worker is in the middle
\* of the save that an earlier epoch enqueued
C6_Witness ==
    /\ pc = "train"
    /\ epoch >= 2
    /\ wpc \in {"rm", "write", "config"}
    /\ task.epoch < epoch

\* C7: the early-stop transition rule.  An evaluated loss v that is below
\* best_loss - delta becomes the best loss, resets the counter and leaves
\* the machine RUNNING; any other loss leaves the best loss, adds one to the
\* counter and stops the machine exactly if the counter is then >= patience.
C7_Rule ==
    [][val_losses' # val_losses =>
          LET v == Last(val_losses') IN
          IF best_val_loss = INF \/ v < best_val_loss - early_stop_delta
            THEN /\ best_val_loss' = v
                 /\ no_improve_counter' = 0
                 /\ ~is_early_stop'
            ELSE /\ best_val_loss' = best_val_loss
                 /\ no_improve_counter' = no_improve_counter + 1
                 /\ is_early_stop' <=>
                        (no_improve_counter' >= early_stop_patience)]_vars

C7_Script == <<100, 90, 95, 96, 97>>

\* with delta 0.01 and patience 3 the script stops at the 5th evaluation
C7_Instance ==
    [](early_stop_patience = 3 /\ early_stop_delta = 1 =>
          \A k \in 1..Len(C7_Script) :
              val_losses = SubSeq(C7_Script, 1, k) =>
                  (is_early_stop <=> k = Len(C7_Script)))

C7_EarlyStopRule == C7_Rule /\ C7_Instance

C7_Witness ==
    /\ early_stop_patience = 3 /\ early_stop_delta = 1
    /\ val_losses = C7_Script
    /\ no_improve_counter = 3
    /\ best_val_loss = 90
    /\ is_early_stop

\* C8: STOPPED is terminal.  Once the counter has reached patience, no step
\* of the same run trains, validates, appends an epoch record, changes the
\* counter or the best loss, or enqueues a checkpoint save.
C8_StoppedIsTerminal ==
    [][no_improve_counter >= early_stop_patience /\ run' = run =>
          /\ UNCHANGED <<epoch, params, val_losses, val_accs, best_val_acc,
                         best_val_loss, no_improve_counter, is_early_stop>>
          /\ pc' \notin {"train", "eval", "save", "stop_check"}
          /\ arg'.kind # "ckpt"
          /\ \A i \in 1..Len(save_queue') :
                 save_queue'[i].kind = "ckpt" =>
                     \E j \in 1..Len(save_queue) : save_queue[j] = save_queue'[i]]_vars

\* a run that stopped before its last epoch has returned
C8_Witness ==
    /\ is_early_stop
    /\ no_improve_counter >= early_stop_patience
    /\ epoch < MaxEpochs
    /\ pc = "returned"

SeqMax(s) == CHOOSE m \in Range(s) : \A x \in Range(s) : x <= m

\* C9: monotonic best-state.  After every epoch best_val_acc is the maximum
\* of the validation accuracies of the run so far, and within a run it never
\* decreases.
C9_MonotonicBest ==
    /\ [](val_accs # <<>> => best_val_acc = SeqMax(val_accs))
    /\ [][run' = run => best_val_acc' >= best_val_acc]_vars

\* an epoch scored below an earlier one and the best stayed
C9_Witness ==
    /\ Len(val_accs) >= 2
    /\ val_accs[1] > val_accs[2]
    /\ best_val_acc = val_accs[1]

\* C10: save qualification.  save_checkpoint enqueues a task exactly when the
\* epoch's validation accuracy is strictly greater than that of every earlier
\* epoch of the run.
C10_SaveIffStrictBest ==
    [][(pc = "save" /\ pc' # pc) =>
          ((pc' = "add_start") <=>
              \A i \in 1..(Len(val_accs) - 1) : val_accs[i] < Last(val_accs))]_vars

\* C11: snapshot at enqueue time.  A complete checkpoint file written by the
\* save task of epoch e holds the parameters as they were when the task was
\* enqueued (after e training passes of the run) and carries in its name the
\* best accuracy of that moment (the accuracy of epoch e, which qualified the
\* save).
C11_SnapshotAtEnqueue ==
    \A f \in files :
        f.ok => /\ f.params = <<run, f.epoch>>
                /\ f.epoch \in 1..Len(val_accs)
                /\ f.acc = val_accs[f.epoch]

\* C12: ordering at run end.  The final-export task is handed to add_task only
\* after the epoch loop has exited; while the worker executes it, every
\* checkpoint save enqueued in the run has finished; and when start() has
\* returned, the final-export task of the run has finished.
C12_OrderingAtRunEnd ==
    /\ arg.kind = "final" => pc \in {"add_start", "add_put"}
    /\ (task.kind = "final" /\ task.id[1] = run) =>
           \A i \in 1..Len(added) :
               added[i] # task.id => added[i] \in Range(executed)
    /\ pc = "returned" =>
           /\ added # <<>>
           /\ Last(added) \in Range(executed)

\* C13: final export content.  A final-export task that runs to its end while
\* the run directory holds a checkpoint writes an export with exactly the
\* model parameters of a checkpoint of the directory, with the
\* model_state_dict entry and without the optimizer_state_dict and
\* scheduler_state_dict entries, and leaves the directory as it was.
C13_FinalExportContent ==
    [][(task.kind = "final" /\ task' = NoTask /\ files # {}
            /\ task.id \notin failed') =>
          /\ files' = files
          /\ Len(export') = 1
          /\ \E f \in files : f.ok /\ export'[1].params = f.params
          /\ "model_state_dict" \in export'[1].keys
          /\ "optimizer_state_dict" \notin export'[1].keys
          /\ "scheduler_state_dict" \notin export'[1].keys]_vars

\* the final-export task of the run has run to its end on a directory that
\* holds a checkpoint of the run
C13_Witness ==
    /\ pc \in {"shutdown", "join", "returned"}
    /\ added # <<>>
    /\ Last(added) \in Range(executed)
    /\ Last(added) \notin failed
    /\ \E f \in files : f.ok /\ export = <<[params |-> f.params,
                                              keys |-> f.keys \ StrippedKeys]>>

\* C14: experiment directory uniqueness.  Any two runs are allocated different
\* directory paths.
C14_DirectoryUnique ==
    \A i, j \in 1..Len(experiment_dirs) :
        i # j => experiment_dirs[i] # experiment_dirs[j]

\* the run's checkpoint saves have all been enqueued and executed
C15_Drained ==
    /\ pc \in {"train", "eval", "stop_check", "final"}
    /\ save_queue = <<>>
    /\ task = NoTask

\* C15: configuration snapshot lifecycle.  From the allocation of the run
\* directory on, the directory holds a configuration snapshot; and when the
\* save queue has drained after a change of the best accuracy, the snapshot
\* records the run's current best validation accuracy.
C15_ConfigSnapshot ==
    /\ run >= 1 => cfg # <<>>
    /\ (C15_Drained /\ val_accs # <<>>) => cfg = <<best_val_acc>>

\* C16: loop termination.  The epoch counter goes up by one at a time, from
\* 1; the loop is left exactly at the first epoch that is the last one of the
\* budget or whose evaluation stopped the run: inside the loop the run is not
\* stopped and the epoch is within the budget, and after the loop the run is
\* stopped or the budget is exhausted, with one epoch record per epoch run.
C16_Order ==
    [][(epoch' # epoch /\ run' = run) =>
          /\ epoch' = epoch + 1
          /\ pc = "stop_check"
          /\ ~is_early_stop'
          /\ epoch < MaxEpochs]_vars

C16_ExitExactly ==
    [][(pc = "stop_check" /\ pc' # pc) =>
          ((pc' = "final") <=> (is_early_stop' \/ epoch = MaxEpochs))]_vars

C16_InLoop ==
    pc \in {"train", "eval", "save", "stop_check"} =>
        /\ epoch \in 1..MaxEpochs
        /\ ~is_early_stop
        /\ Len(val_losses) \in {epoch - 1, epoch}

C16_AfterLoop ==
    (pc \in {"final", "shutdown", "join", "returned"} \/ arg.kind = "final") =>
        /\ is_early_stop \/ epoch = MaxEpochs
        /\ epoch <= MaxEpochs
        /\ Len(val_losses) = epoch

C16_LoopTermination ==
    C16_Order /\ C16_ExitExactly /\ []C16_InLoop /\ []C16_AfterLoop

\* a run has used up its epoch budget without the early-stop signal
C16_Witness ==
    /\ pc = "join"
    /\ epoch = MaxEpochs
    /\ ~is_early_stop
    /\ Len(val_losses) = MaxEpochs

\* the label of sample b at position i has the first maximal logit of head i
C17_LabelWins(i, b) ==
    LET row == outputs[i][b]
        l == labels[b][i]
    IN /\ \A d \in DOMAIN row : row[d] <= row[l]
       /\ \A d \in DOMAIN row : d < l => row[d] < row[l]

\* C17: full-sequence accuracy is strict.  The value returned is the number
\* of samples whose label is the prediction at every position, over the
\* batch size: a sample with one wrong position adds nothing; and the
\* example (predictions 0,1,2,3 against labels 0,1,2,4) gives 0.
C17_StrictFullSequence ==
    acc_out # <<>> =>
        /\ acc_out[1].acc[2] = Len(labels)
        /\ acc_out[1].acc[1] =
              Cardinality({b \in 1..Len(labels) :
                              \A i \in 1..Len(outputs) : C17_LabelWins(i, b)})
        /\ (outputs = ExampleOutputs /\ labels = ExampleLabels) =>
              /\ acc_out[1].preds = <<ExamplePreds>>
              /\ acc_out[1].acc = <<0, 1>>

\* a batch of two samples with two positions: one sample right everywhere,
\* the other wrong at one position only, scored 1 / 2
C17_Witness ==
    /\ acc_out # <<>>
    /\ Len(labels) = 2 /\ Len(outputs) = 2
    /\ \A i \in 1..2 : C17_LabelWins(i, 1)
    /\ C17_LabelWins(1, 2) /\ ~C17_LabelWins(2, 2)
    /\ acc_out[1].acc = <<1, 2>>

\* C18: config override frame.  After a train_model call in which only
\* learning_rate was given, LEARNING_RATE is the value given and every other
\* option has its default value.
C18_OverrideFrame ==
    (/\ calls # <<>>
     /\ Last(calls).model_type = NoneStr
     /\ Last(calls).epochs = None
     /\ Last(calls).batch_size = None
     /\ Last(calls).learning_rate # None) =>
        config = [DefaultConfig EXCEPT
                     !.LEARNING_RATE = Last(calls).learning_rate]

\* C18 for a call that is the first of its process and gives a non-zero
\* learning rate
C18_FirstCallFrame ==
    (/\ Len(calls) = 1
     /\ calls[1].model_type = NoneStr
     /\ calls[1].epochs = None
     /\ calls[1].batch_size = None
     /\ Truthy(calls[1].learning_rate)) =>
        config = [DefaultConfig EXCEPT
                     !.LEARNING_RATE = calls[1].learning_rate]

\* C19: a non-finite loss is fatal.  No epoch record holds a non-finite loss,
\* and once a validation pass has produced one, the run does nothing more: no
\* further epoch or training pass, no change of the early-stop counter or of
\* the best state, no task enqueued.
C19_NoNonFiniteRecord ==
    \A i \in 1..Len(val_losses) : val_losses[i] \notin NonFinite

C19_Aborted ==
    [][(val_losses # <<>> /\ Last(val_losses) \in NonFinite /\ run' = run) =>
          UNCHANGED <<epoch, params, val_losses, val_accs, no_improve_counter,
                      is_early_stop, best_val_loss, best_val_acc, save_queue,
                      added>>]_vars

C19_NonFiniteFatal == []C19_NoNonFiniteRecord /\ C19_Aborted

\* C20: early stopping is reported in the final metadata.  When
\* save_final_model has returned, the metadata file is written next to the
\* export and its stopped_early field is true exactly when the run ended by
\* early stopping.
C20_StoppedEarlyReported ==
    export_root # <<>> =>
        /\ export_root[1].config # <<>>
        /\ export_root[1].config[1].results # <<>>
        /\ export_root[1].config[1].results[1].stopped_early
               = model_state[1].early_stop

\* what holds of the code: a metadata file that has results reports
\* early_stop as it is
C20_ReportedWhenWritten ==
    (/\ export_root # <<>>
     /\ export_root[1].config # <<>>
     /\ export_root[1].config[1].results # <<>>) =>
        export_root[1].config[1].results[1].stopped_early
            = model_state[1].early_stop

\* the threads that are in _process_queue, and those inside a task
C21_Alive == {i \in 1..Len(threads) : threads[i].wpc # "dead"}
C21_Executing == {i \in 1..Len(threads) : threads[i].wpc = "run"}

C22_BestCheckpoint(f) ==
    /\ model_state[1].pths = {f}
    /\ f.acc = model_state[1].best_val_acc
    /\ f.acc > 0

\* C22: the final export holds the best parameters.  After a run that saved
\* a checkpoint, stopped early or not, the exported parameters are those of
\* the epoch of the run's best validation accuracy, and the accuracy
\* recorded with the export is that accuracy.
C22_ExportIsBest ==
    export_root # <<>> =>
        \A f \in model_state[1].pths :
            C22_BestCheckpoint(f) =>
                /\ export_root[1].pth.epoch = f.epoch
                /\ export_root[1].pth.acc = f.acc

\* what holds of the code: C22 for the runs that stopped early
C22_ExportIsBestAfterEarlyStop ==
    (export_root # <<>> /\ model_state[1].early_stop) =>
        \A f \in model_state[1].pths :
            C22_BestCheckpoint(f) =>
                /\ export_root[1].pth.epoch = f.epoch
                /\ export_root[1].pth.acc = f.acc

\* the least validation loss of the epochs of instance t so far
C23_BestLoss(t) ==
    LET own == {i \in 1..Len(trainer_lists.valid_losses) :
                   trainer_lists.valid_losses[i].by = t}
    IN IF own = {} THEN INF
       ELSE LET i == CHOOSE i \in own :
                         \A j \in own : trainer_lists.valid_losses[i].v
                                           <= trainer_lists.valid_losses[j].v
            IN trainer_lists.valid_losses[i].v

\* C23: early-stop counter of Trainer.train.  An epoch whose validation loss
\* is below the best validation loss of the run so far by more than
\* config.DELTA resets the counter to 0, any other epoch adds 1 to it, and
\* the run stops when the counter reaches config.PATIENCE.
C23_LossCounter ==
    [][(trainers # <<>> /\ Len(trainers') = Len(trainers)
         /\ Last(trainers').current_epoch # Last(trainers).current_epoch) =>
          LET t == Len(trainers)
              v == Last(trainer_lists'.valid_losses).v
              best == C23_BestLoss(t)
              improved == best = INF \/ v < best - config.DELTA
          IN /\ trainers'[t].no_improve =
                    IF improved THEN 0 ELSE trainers[t].no_improve + 1
             /\ trainers'[t].early_stop <=>
                    trainers'[t].no_improve >= config.PATIENCE]_vars

\* what holds of the code: the counter follows the validation accuracy
C23_AccuracyCounter ==
    [][(trainers # <<>> /\ Len(trainers') = Len(trainers)
         /\ Last(trainers').current_epoch # Last(trainers).current_epoch) =>
          LET t == Len(trainers)
              a == Last(trainer_lists'.valid_accs).v
          IN /\ trainers'[t].no_improve =
                    IF a > trainers[t].best_valid_acc
                      THEN 0 ELSE trainers[t].no_improve + 1
             /\ trainers'[t].early_stop <=>
                    trainers'[t].no_improve >= config.PATIENCE]_vars

\* the samples of the pass whose prediction at position pos is the label
C24_CorrectAt(pos) ==
    {b \in 1..Len(dataset) : dataset[b].pred[pos] = dataset[b].label[pos]}

\* C24: per-position accuracy covers the whole pass.  The per-position
\* accuracy that _eval logs is, for every position, the number of samples of
\* the pass predicted right at that position over the number of samples of
\* the pass.
C24_PositionAccWholePass ==
    (pass_out # <<>> /\ loader[1].kind = "eval") =>
        \A pos \in 1..loader[1].captcha_length :
            RatEq(pass_out[1].position_acc[pos],
                  <<Cardinality(C24_CorrectAt(pos)), Len(dataset)>>)

\* what holds of the code: C24 for a pass of one batch
C24_PositionAccOneBatch ==
    (pass_out # <<>> /\ loader[1].kind = "eval"
       /\ Len(dataset) <= loader[1].batch_size) =>
        \A pos \in 1..loader[1].captcha_length :
            RatEq(pass_out[1].position_acc[pos],
                  <<Cardinality(C24_CorrectAt(pos)), Len(dataset)>>)

\* the samples of the pass predicted right at every position
C25_Correct ==
    {b \in 1..Len(dataset) : RowCorrect(dataset[b].pred, dataset[b].label)}

\* C25: per-epoch accuracy is batch-weighted.  The accuracy a pass returns
\* is the number of its samples predicted right at every position over the
\* number of its samples, whatever the batch size is.
C25_BatchWeighted ==
    pass_out # <<>> =>
        RatEq(pass_out[1].acc, <<Cardinality(C25_Correct), Len(dataset)>>)

\* what holds of the code: C25 when the batches are of one size
C25_EqualBatches ==
    (pass_out # <<>> /\ Len(dataset) % loader[1].batch_size = 0) =>
        RatEq(pass_out[1].acc, <<Cardinality(C25_Correct), Len(dataset)>>)

\* the early-stop state after the losses of a run, computed from the
\* losses, the patience and the delta alone
RECURSIVE C26_Replay(_, _, _)
C26_Replay(losses, patience, delta) ==
    IF losses = <<>>
      THEN [best |-> INF, counter |-> 0, stopped |-> FALSE]
      ELSE LET before == C26_Replay(SubSeq(losses, 1, Len(losses) - 1),
                                    patience, delta)
               v == Last(losses)
           IN IF before.best = INF \/ v < before.best - delta
                THEN [best |-> v, counter |-> 0, stopped |-> before.stopped]
                ELSE [best |-> before.best, counter |-> before.counter + 1,
                      stopped |-> before.stopped
                                    \/ before.counter + 1 >= patience]

\* the validation losses that _check_early_stop has been called with
C26_Checked ==
    IF \/ pc \in {"save", "stop_check"}
       \/ pc \in {"add_start", "add_put"} /\ arg.kind = "ckpt"
      THEN SubSeq(val_losses, 1, Len(val_losses) - 1)
      ELSE val_losses

\* C26: early stopping depends on the validation loss only.  After every
\* epoch the counter, the best loss and the stop signal are what the delta,
\* the patience and the sequence of validation losses determine, so two
\* runs that agree on these agree on the counter after every epoch and stop
\* at the same epoch, whatever their accuracies are.
C26_LossOnly ==
    run >= 1 =>
        LET r == C26_Replay(C26_Checked, early_stop_patience, early_stop_delta)
        IN /\ no_improve_counter = r.counter
           /\ best_val_loss = r.best
           /\ is_early_stop = r.stopped
           /\ Len(val_accs) = Len(val_losses)

\* a run has stopped at an epoch that reached a new best accuracy
C26_Witness ==
    /\ is_early_stop
    /\ pc = "final"
    /\ Len(val_accs) >= 2
    /\ \A i \in 1..(Len(val_accs) - 1) : val_accs[i] < Last(val_accs)

\* the five history lists of the run
C27_Lists == <<train_losses, train_accs, val_losses, val_accs, learning_rates>>

\* the epochs of the run whose record has been appended
C27_Completed == IF pc \in {"train", "eval"} THEN epoch - 1 ELSE epoch

C27_Counts ==
    run >= 1 => \A i \in 1..Len(C27_Lists) : Len(C27_Lists[i]) = C27_Completed

\* C27: epoch records are append-only.  After k epochs of a run each of
\* train_losses, train_accs, val_losses, val_accs and learning_rates holds
\* k entries; an entry is added at the end only, as entry e in epoch e, to
\* all five lists in one step; and no step of the run changes or removes
\* an entry.
C27_AppendOnly ==
    /\ []C27_Counts
    /\ [][run' = run =>
            \A i \in 1..Len(C27_Lists) :
                LET old == C27_Lists[i]
                    new == C27_Lists'[i]
                IN \/ new = old /\ val_losses' = val_losses
                   \/ /\ Len(new) = Len(old) + 1
                      /\ SubSeq(new, 1, Len(old)) = old
                      /\ Len(new) = epoch
                      /\ pc = "eval"]_vars

\* a run has completed its last epoch and holds one record per epoch
C27_Witness ==
    /\ pc = "final"
    /\ epoch = MaxEpochs
    /\ \A i \in 1..Len(C27_Lists) : Len(C27_Lists[i]) = MaxEpochs
    /\ val_losses[1] # val_losses[2]

\* C28: initial training state of BaseModel.train_model.  When the loop is
\* entered the model is in the RUNNING start state, with best_val_acc = 0.0,
\* best_val_loss = +infinity, no_improve_count = 0 and early_stop = False,
\* and the first epoch does not raise.
C28_StartState ==
    \A k \in 1..Len(models) :
        /\ (models[k].pc = "loop" /\ models[k].epoch = 0) =>
               /\ models[k].best_val_acc = Value(0)
               /\ models[k].best_val_loss = Value(INF)
               /\ models[k].no_improve_count = Value(0)
               /\ models[k].early_stop = Value(FALSE)
        /\ models[k].epoch = 1 => models[k].pc # "raised"

\* what holds of the code: the first epoch is recorded and then raises
C28_FirstEpochRaises ==
    \A k \in 1..Len(models) :
        models[k].epoch >= 1 =>
            /\ models[k].epoch = 1
            /\ models[k].pc = "raised"
            /\ Len(models[k].val_accs) = 1
            /\ models[k].checkpoint = NoValue

\* C29: worker restart in add_task.  When add_task has returned, a task that
\* is in the queue has a live worker thread that will take it, in the first
\* run of the process and in every later one.
C29_WorkerForEveryTask ==
    (save_queue # <<>> /\ pc \notin {"add_start", "add_put"}) =>
        wpc \notin {"none", "dead"}

\* what holds of the code: C29 up to the first shutdown()
C29_WorkerInFirstRun ==
    (run = 1 /\ save_queue # <<>> /\ pc \notin {"add_start", "add_put"}) =>
        wpc \notin {"none", "dead"}

\* C29 as progress under fair scheduling: a task that has been put on the
\* queue is taken from it
C29_EventuallyTaken ==
    (save_queue # <<>>) ~> (save_queue = <<>>)

\* the five history lists as the Trainer made last reads them
C30_Lists ==
    <<trainer_lists.train_losses, trainer_lists.valid_losses,
      trainer_lists.train_accs, trainer_lists.valid_accs,
      trainer_lists.learning_rates>>

\* C30: run history isolation in Trainer.  The history lists of a Trainer
\* hold the epoch records of its own run only: they are empty when it is
\* made, also after another Trainer has trained in the process, and have k
\* entries, all its own, after its k-th epoch.
C30_HistoryIsolated ==
    trainers # <<>> =>
        \A i \in 1..Len(C30_Lists) :
            /\ Len(C30_Lists[i]) = Last(trainers).current_epoch
            /\ \A j \in 1..Len(C30_Lists[i]) :
                   C30_Lists[i][j].by = Len(trainers)

\* what holds of the code: C30 for the first Trainer of the process
C30_FirstTrainerHistory ==
    Len(trainers) = 1 =>
        \A i \in 1..Len(C30_Lists) :
            /\ Len(C30_Lists[i]) = trainers[1].current_epoch
            /\ \A j \in 1..Len(C30_Lists[i]) : C30_Lists[i][j].by = 1

====
